---------------------------- MODULE Spec2Model ----------------------------
(***************************************************************************)
(* A model of the Catalyst server (src/src/server.ts): the URL / browser   *)
(* resolver, the /open-browser endpoint with its detached child, and the   *)
(* /do-something endpoint with its awaited agent child process.            *)
(*                                                                         *)
(* Text is modelled at character level: a string is a sequence of          *)
(* one-character strings, so that String.includes, startsWith, trim,       *)
(* toLowerCase and encodeURIComponent are computed, not assumed.           *)
(***************************************************************************)
EXTENDS Integers, Sequences, FiniteSets, TLC

(***************************************************************************)
(* Bounds of the model.                                                    *)
(***************************************************************************)
\* the longest prompt, in words of the vocabulary Words
MaxWords == 2
\* the number of 'data' events the agent children emit in one run
MaxData == 2

(***************************************************************************)
(* Strings.                                                                *)
(***************************************************************************)
UpperCase == <<"A","B","C","D","E","F","G","H","I","J","K","L","M",
               "N","O","P","Q","R","S","T","U","V","W","X","Y","Z">>
LowerCase == <<"a","b","c","d","e","f","g","h","i","j","k","l","m",
               "n","o","p","q","r","s","t","u","v","w","x","y","z">>
Digits == {"0","1","2","3","4","5","6","7","8","9"}

Range(s) == {s[i] : i \in DOMAIN s}

\* one character of String.prototype.toLowerCase
LowerChar(c) ==
  IF \E i \in DOMAIN UpperCase : UpperCase[i] = c
  THEN LowerCase[CHOOSE i \in DOMAIN UpperCase : UpperCase[i] = c]
  ELSE c

\* String.prototype.toLowerCase
RECURSIVE ToLowerCase(_)
ToLowerCase(s) ==
  IF s = <<>> THEN <<>>
  ELSE <<LowerChar(Head(s))>> \o ToLowerCase(Tail(s))

\* the white space String.prototype.trim removes
IsSpace(c) == c \in {" ", "\n"}

\* String.prototype.trim
Trim(s) ==
  IF \A i \in DOMAIN s : IsSpace(s[i]) THEN <<>>
  ELSE LET first == CHOOSE i \in DOMAIN s :
                      ~IsSpace(s[i]) /\ \A j \in 1..(i-1) : IsSpace(s[j])
           last  == CHOOSE i \in DOMAIN s :
                      ~IsSpace(s[i]) /\ \A j \in (i+1)..Len(s) : IsSpace(s[j])
       IN SubSeq(s, first, last)

\* String.prototype.startsWith
StartsWith(s, p) == Len(p) <= Len(s) /\ SubSeq(s, 1, Len(p)) = p

\* String.prototype.includes
Includes(s, p) ==
  \E i \in 1..(Len(s) - Len(p) + 1) : SubSeq(s, i, i + Len(p) - 1) = p

\* the characters encodeURIComponent leaves as they are
Unreserved(c) ==
  \/ c \in Range(UpperCase) \cup Range(LowerCase) \cup Digits
  \/ c \in {"-", "_", ".", "!", "~", "*", "'", "(", ")"}

\* the escape of one reserved character of the model's alphabet
Escape(c) ==
  CASE c = " "  -> <<"%","2","0">>
    [] c = "/"  -> <<"%","2","F">>
    [] c = ":"  -> <<"%","3","A">>
    [] c = "?"  -> <<"%","3","F">>
    [] c = "="  -> <<"%","3","D">>
    [] c = "\n" -> <<"%","0","A">>
    [] OTHER    -> <<"%","?","?">>

RECURSIVE EncodeURIComponent(_)
EncodeURIComponent(s) ==
  IF s = <<>> THEN <<>>
  ELSE (IF Unreserved(Head(s)) THEN <<Head(s)>> ELSE Escape(Head(s)))
       \o EncodeURIComponent(Tail(s))


(***************************************************************************)
(* The site shortcut table, in the order of the source (Object.keys keeps  *)
(* insertion order).  Each entry is <<key, url>>; USERNAME is "u".         *)
(***************************************************************************)
SITE_SHORTCUTS ==
  << << <<"m","y"," ","g","i","t","h","u","b"," ","p","r","o","f","i","l","e">>,
        <<"h","t","t","p","s",":","/","/","g","i","t","h","u","b",".","c","o","m","/","u">> >>,
     << <<"g","i","t","h","u","b">>,
        <<"h","t","t","p","s",":","/","/","g","i","t","h","u","b",".","c","o","m">> >>,
     << <<"y","o","u","t","u","b","e">>,
        <<"h","t","t","p","s",":","/","/","y","o","u","t","u","b","e",".","c","o","m">> >>,
     << <<"g","o","o","g","l","e">>,
        <<"h","t","t","p","s",":","/","/","g","o","o","g","l","e",".","c","o","m">> >>,
     << <<"g","m","a","i","l">>,
        <<"h","t","t","p","s",":","/","/","m","a","i","l",".","g","o","o","g","l","e",".","c","o","m">> >>,
     << <<"t","w","i","t","t","e","r">>,
        <<"h","t","t","p","s",":","/","/","t","w","i","t","t","e","r",".","c","o","m">> >>,
     << <<"x">>,
        <<"h","t","t","p","s",":","/","/","x",".","c","o","m">> >>,
     << <<"r","e","d","d","i","t">>,
        <<"h","t","t","p","s",":","/","/","r","e","d","d","i","t",".","c","o","m">> >>,
     << <<"s","t","a","c","k","o","v","e","r","f","l","o","w">>,
        <<"h","t","t","p","s",":","/","/","s","t","a","c","k","o","v","e","r","f","l","o","w",".","c","o","m">> >>,
     << <<"l","i","n","k","e","d","i","n">>,
        <<"h","t","t","p","s",":","/","/","l","i","n","k","e","d","i","n",".","c","o","m">> >>,
     << <<"n","o","t","i","o","n">>,
        <<"h","t","t","p","s",":","/","/","n","o","t","i","o","n",".","s","o">> >>,
     << <<"v","e","r","c","e","l">>,
        <<"h","t","t","p","s",":","/","/","v","e","r","c","e","l",".","c","o","m">> >> >>

S_http == <<"h","t","t","p",":","/","/">>
S_https == <<"h","t","t","p","s",":","/","/">>
S_search == <<"/","s","e","a","r","c","h","?","q","=">>
K_google == <<"g","o","o","g","l","e">>
TLDS == {<<"c","o","m">>, <<"i","o">>, <<"o","r","g">>, <<"n","e","t">>,
         <<"d","e","v">>, <<"c","o">>, <<"a","p","p">>}

\* Object.keys(table)
RECURSIVE Keys(_)
Keys(table) ==
  IF table = <<>> THEN <<>>
  ELSE <<Head(table)[1]>> \o Keys(Tail(table))

\* table[key]
Lookup(table, key) == table[CHOOSE i \in DOMAIN table : table[i][1] = key][2]

Front(s) == SubSeq(s, 1, Len(s) - 1)
Last(s) == s[Len(s)]

\* the comparator of the sort, as the sign of its result would order a and b:
\* sign 1 is (a, b) => b.length - a.length, sign -1 is the comparator reversed
Before(a, b, sign) == sign * (Len(b) - Len(a)) < 0

\* x placed in a sorted sequence: after the last element that need not come
\* after it, so that equal elements keep their order (Array.prototype.sort is
\* stable)
InsertStable(sorted, x, sign) ==
  LET keep == {i \in DOMAIN sorted : ~Before(x, sorted[i], sign)}
      n    == IF keep = {} THEN 0 ELSE CHOOSE i \in keep : \A j \in keep : j <= i
  IN SubSeq(sorted, 1, n) \o <<x>> \o SubSeq(sorted, n + 1, Len(sorted))

RECURSIVE StableSort(_, _)
StableSort(s, sign) ==
  IF s = <<>> THEN <<>>
  ELSE InsertStable(StableSort(Front(s), sign), Last(s), sign)

\* the keys sorted with the comparator reversed: shortest first
SortedKeysAscending(table) == StableSort(Keys(table), -1)

\* Object.keys(SITE_SHORTCUTS).sort((a, b) => b.length - a.length)
SortedKeys(table) == StableSort(Keys(table), 1)

\* [\w-]
IsWordChar(c) ==
  c \in Range(UpperCase) \cup Range(LowerCase) \cup Digits \cup {"_", "-"}

\* /^[\w-]+\.(com|io|org|net|dev|co|app)/.test(s)
IsDomainLike(s) ==
  \E n \in 1..(Len(s) - 1) :
    /\ \A i \in 1..n : IsWordChar(s[i])
    /\ s[n + 1] = "."
    /\ \E tld \in TLDS : StartsWith(SubSeq(s, n + 2, Len(s)), tld)

\* the first key of the scan that the text includes, <<>> when there is none
RECURSIVE FirstIncluded(_, _)
FirstIncluded(keys, lower) ==
  IF keys = <<>> THEN <<>>
  ELSE IF Includes(lower, Head(keys)) THEN Head(keys)
  ELSE FirstIncluded(Tail(keys), lower)

\* resolveUrl, over a given shortcut table
ResolveUrlWith(table, text) ==
  LET lower == Trim(ToLowerCase(text))
      key   == FirstIncluded(SortedKeys(table), lower)
  IN IF StartsWith(lower, S_http) \/ StartsWith(lower, S_https) THEN Trim(text)
     ELSE IF key # <<>> THEN Lookup(table, key)
     ELSE IF IsDomainLike(lower) THEN S_https \o lower
     ELSE Lookup(table, K_google) \o S_search \o EncodeURIComponent(text)

resolveUrl(text) == ResolveUrlWith(SITE_SHORTCUTS, text)

\* the browser names extractBrowserName scans, in its order
BrowserNames ==
  << << <<"b","r","a","v","e">>, "brave" >>,
     << <<"c","h","r","o","m","e">>, "chrome" >>,
     << <<"c","h","r","o","m","i","u","m">>, "chromium" >>,
     << <<"f","i","r","e","f","o","x">>, "firefox" >>,
     << <<"s","a","f","a","r","i">>, "safari" >>,
     << <<"e","d","g","e">>, "edge" >> >>

\* extractBrowserName: the first browser name the lowercased text includes,
\* "null" when there is none
extractBrowserName(text) ==
  LET lower == ToLowerCase(text)
      hits  == {i \in DOMAIN BrowserNames : Includes(lower, BrowserNames[i][1])}
  IN IF hits = {} THEN "null"
     ELSE BrowserNames[CHOOSE i \in hits : \A j \in hits : i <= j][2]

(***************************************************************************)
(* State.                                                                  *)
(***************************************************************************)
VARIABLES
  CURRENT_OS,          \* detectOS(), set once at startup
  host,                \* the binaries and app bundles present on the host
  INSTALLED_BROWSERS,  \* detectBrowsers(CURRENT_OS), set once at startup
  crashed,             \* an exception escaped a listener: the process is gone
  brPrompt,            \* /open-browser: the prompt of the latest request
  brResp,              \* /open-browser: the responses sent to the latest request
  brSpawned,           \* /open-browser: the cmdArgs spawned for it, <<>> if none
  brChild,             \* the detached child: "none", "running", "launch_failed"
  payload,             \* /do-something: per request, <<>> or <<its payload>>
  child,               \* per request, where its agent child process is
  exitCode,            \* per request, the code the 'close' event carries
  stdout,              \* per request, the closure's stdout
  stderr,              \* per request, the closure's stderr
  wroteOut,            \* per request, what its own child wrote to stdout
  wroteErr,            \* per request, what its own child wrote to stderr
  timer,               \* per request, spawn's timeout: "off", "armed", and
                       \* once it fired "fired" or, SIGTERM ignored, "ignored"
  resp,                \* per request, the responses the client was sent
  sends,               \* per request, the calls of res.json made for it
  nData                \* the 'data' events delivered so far

urlVars == <<brPrompt, brResp, brSpawned, brChild>>
envVars == <<CURRENT_OS, host, INSTALLED_BROWSERS>>
reqVars == <<payload, child, exitCode, stdout, stderr, wroteOut, wroteErr,
             timer, resp, sends, nData>>
vars == <<envVars, crashed, urlVars, reqVars>>

(***************************************************************************)
(* Environment detection and the browser command resolver.                 *)
(***************************************************************************)
OSes == {"linux", "macos", "windows"}

\* which(bin)
which(bin) == bin \in host

\* s with the elements that satisfy keep, in order
RECURSIVE SelectPresent(_)
SelectPresent(s) ==
  IF s = <<>> THEN <<>>
  ELSE (IF which(Head(s)) THEN <<Head(s)>> ELSE <<>>) \o SelectPresent(Tail(s))

\* the binary names detectBrowsers probes on Linux
LinuxCandidates ==
  <<"brave", "brave-browser", "google-chrome", "google-chrome-stable",
    "chromium", "chromium-browser", "firefox",
    "microsoft-edge", "microsoft-edge-stable">>

\* the app bundles detectBrowsers probes on macOS, with the names it reports
MacApps ==
  << <<"/Applications/Brave Browser.app", "brave">>,
     <<"/Applications/Google Chrome.app", "chrome">>,
     <<"/Applications/Firefox.app", "firefox">> >>

RECURSIVE SelectApps(_)
SelectApps(s) ==
  IF s = <<>> THEN <<>>
  ELSE (IF Head(s)[1] \in host THEN <<Head(s)[2]>> ELSE <<>>)
       \o SelectApps(Tail(s))

detectBrowsers(currentOS) ==
  IF currentOS = "linux" THEN SelectPresent(LinuxCandidates)
  ELSE IF currentOS = "macos" THEN SelectApps(MacApps)
  ELSE <<"chrome", "msedge">>

\* candidateMap[hint] ?? [hint]
candidateMap(hint) ==
  CASE hint = "brave"    -> <<"brave", "brave-browser">>
    [] hint = "chrome"   -> <<"google-chrome", "google-chrome-stable",
                              "chromium", "chromium-browser">>
    [] hint = "chromium" -> <<"chromium", "chromium-browser">>
    [] hint = "firefox"  -> <<"firefox">>
    [] hint = "edge"     -> <<"microsoft-edge", "microsoft-edge-stable">>
    [] OTHER             -> <<hint>>

\* candidates.find(b => which(b)), <<>> for undefined
Find(candidates) ==
  LET found == SelectPresent(candidates)
  IN IF found = <<>> THEN <<>> ELSE <<Head(found)>>

\* the macOS map of buildBrowserCommand, "" for undefined
MacAppName(hint) ==
  CASE hint = "brave"   -> "Brave Browser"
    [] hint = "chrome"  -> "Google Chrome"
    [] hint = "firefox" -> "Firefox"
    [] hint = "safari"  -> "Safari"
    [] hint = "edge"    -> "Microsoft Edge"
    [] OTHER            -> ""

\* the Windows map of buildBrowserCommand, with its ?? 'start'
WindowsBin(hint) ==
  CASE hint = "brave"   -> "brave"
    [] hint = "chrome"  -> "chrome"
    [] hint = "firefox" -> "firefox"
    [] hint = "edge"    -> "msedge"
    [] OTHER            -> "start"

\* the command of the OS default handler
DefaultCommand(url, currentOS) ==
  IF currentOS = "linux" THEN <<"xdg-open", url>>
  ELSE IF currentOS = "macos" THEN <<"open", url>>
  ELSE <<"cmd", "/c", "start", url>>

\* buildBrowserCommand with a fallback: a browser that is not found is replaced
\* by the OS default handler
buildBrowserCommandFallback(browserHint, url, currentOS) ==
  IF currentOS = "linux" THEN
    LET found == Find(candidateMap(browserHint))
    IN [threw |-> FALSE, message |-> <<>>,
        cmdArgs |-> IF found = <<>> THEN DefaultCommand(url, currentOS)
                    ELSE <<found[1], url>>]
  ELSE IF currentOS = "macos" THEN
    [threw |-> FALSE, message |-> <<>>,
     cmdArgs |-> IF MacAppName(browserHint) # ""
                 THEN <<"open", "-a", MacAppName(browserHint), url>>
                 ELSE <<"open", url>>]
  ELSE
    [threw |-> FALSE, message |-> <<>>,
     cmdArgs |-> <<"cmd", "/c", "start", WindowsBin(browserHint), url>>]

\* buildBrowserCommand: [threw |-> FALSE, cmdArgs] or [threw |-> TRUE, message];
\* the message is the browser asked for and the installed browsers it lists
buildBrowserCommand(browserHint, url, currentOS) ==
  IF currentOS = "linux" THEN
    LET found == Find(candidateMap(browserHint))
    IN IF found = <<>>
       THEN [threw |-> TRUE, cmdArgs |-> <<>>,
             message |-> <<"not found", browserHint, INSTALLED_BROWSERS>>]
       ELSE [threw |-> FALSE, cmdArgs |-> <<found[1], url>>, message |-> <<>>]
  ELSE IF currentOS = "macos" THEN
    [threw |-> FALSE, message |-> <<>>,
     cmdArgs |-> IF MacAppName(browserHint) # ""
                 THEN <<"open", "-a", MacAppName(browserHint), url>>
                 ELSE <<"open", url>>]
  ELSE
    [threw |-> FALSE, message |-> <<>>,
     cmdArgs |-> <<"cmd", "/c", "start", WindowsBin(browserHint), url>>]

(***************************************************************************)
(* POST /open-browser.  A prompt is <<>> (the body has no prompt field) or *)
(* <<text>>.  A response is a record; json is FALSE for the HTML error     *)
(* page of the framework's default error handler.                          *)
(***************************************************************************)
\* the /do-something requests of a run
Reqs == {"r1", "r2"}

\* a launch error of spawn is emitted on the next tick, before any other event
NoTickPending ==
  /\ brChild # "launch_failed"
  /\ \A q \in Reqs : child[q] # "launch_failed"

HtmlError ==
  [json |-> FALSE, status |-> 500, success |-> FALSE, output |-> <<>>,
   url |-> <<>>, browser |-> "", command |-> <<>>]

\* the handler's response and the cmdArgs it spawns (<<>>: it spawns nothing)
OpenBrowserResult(prompt) ==
  IF prompt = <<>> THEN
    \* extractBrowserName(undefined) throws before the try block is entered
    [response |-> HtmlError, spawned |-> <<>>]
  ELSE
    LET text        == prompt[1]
        name        == extractBrowserName(text)
        browserName == IF name = "null" THEN "default" ELSE name
        url         == resolveUrl(text)
        built       == IF browserName = "default"
                       THEN [threw |-> FALSE, message |-> <<>>,
                             cmdArgs |-> DefaultCommand(url, CURRENT_OS)]
                       ELSE buildBrowserCommand(browserName, url, CURRENT_OS)
    IN IF built.threw
       THEN [response |-> [json |-> TRUE, status |-> 400, success |-> FALSE,
                           output |-> built.message, url |-> <<>>,
                           browser |-> "", command |-> <<>>],
             spawned |-> <<>>]
       ELSE [response |-> [json |-> TRUE, status |-> 200, success |-> TRUE,
                           output |-> <<"Opened", url,
                                        IF browserName = "default"
                                        THEN "default browser" ELSE browserName>>,
                           url |-> url, browser |-> browserName,
                           command |-> built.cmdArgs],
             spawned |-> built.cmdArgs]

\* app.post('/open-browser'): the whole handler, for the request whose prompt
\* is brPrompt.  The child is spawned detached with no listener; a binary that
\* is not there fails to launch, and the 'error' event of that is emitted on
\* the next tick, before any other request.
OpenBrowser ==
  /\ ~crashed
  /\ NoTickPending
  /\ brResp = <<>>
  /\ LET r == OpenBrowserResult(brPrompt)
     IN /\ brResp' = <<r.response>>
        /\ brSpawned' = r.spawned
        /\ brChild' = IF r.spawned = <<>> THEN "none"
                      ELSE IF which(r.spawned[1]) THEN "running"
                      ELSE "launch_failed"
  /\ UNCHANGED <<envVars, crashed, brPrompt, reqVars>>

\* the detached child's 'error' event: proc has no 'error' listener, so the
\* event is thrown as an uncaught exception
BrowserChildError ==
  /\ ~crashed
  /\ brChild = "launch_failed"
  /\ crashed' = TRUE
  /\ brChild' = "none"
  /\ UNCHANGED <<envVars, brPrompt, brResp, brSpawned, reqVars>>

\* the detached child exits: nobody is told (proc.unref(), no listener)
BrowserChildExit ==
  /\ ~crashed
  /\ brChild = "running"
  /\ brChild' = "none"
  /\ UNCHANGED <<envVars, crashed, brPrompt, brResp, brSpawned, reqVars>>

(***************************************************************************)
(* The prompts of the model: up to MaxWords words of a vocabulary, joined  *)
(* by single spaces.                                                       *)
(***************************************************************************)
Words ==
  { <<"g","i","t","h","u","b">>,
    <<"G","o","o","g","l","e">>,
    <<"m","y"," ","g","i","t","h","u","b"," ","p","r","o","f","i","l","e">>,
    <<"a","s","d","k","j","h"," ","r","a","n","d","o","m"," ","t","e","x","t">>,
    <<"a"," ","p","o","e","m">>,
    <<"f","o","o",".","d","e","v">>,
    <<"h","t","t","p","s",":","/","/","a",".","i","o">>,
    <<"B","r","a","v","e">>,
    <<"c","h","r","o","m","e">>,
    <<"f","i","r","e","f","o","x">> }

RECURSIVE Join(_)
Join(ws) ==
  IF ws = <<>> THEN <<>>
  ELSE IF Len(ws) = 1 THEN ws[1]
  ELSE ws[1] \o <<" ">> \o Join(Tail(ws))

Texts == {Join(ws) : ws \in UNION {[1..n -> Words] : n \in 0..MaxWords}}

Prompts == {<<>>} \cup {<<t>> : t \in Texts}

\* the hosts of the model: per OS, what may be present
Hosts(os) ==
  IF os = "linux"
  THEN {{}} \cup {{"xdg-open"} \cup bs :
                    bs \in SUBSET {"google-chrome", "chromium", "firefox"}}
  ELSE IF os = "macos" THEN {{"open"}, {"open", "/Applications/Firefox.app"}}
  ELSE {{"cmd"}}

(***************************************************************************)
(* POST /do-something.  What a child writes is a sequence of chunks, one   *)
(* per 'data' event; a chunk is white space, a whole JSON token sequence   *)
(* or a part of one, or plain text, so that a document can arrive split    *)
(* over two events.  The closure's stdout is the chunks in arrival order.  *)
(* In a chunk, ' stands for the double quote of JSON.                      *)
(***************************************************************************)
C_ws == "\n"
C_null == "null"
C_empty == "{}"
C_respNull == "{'response':null}"
C_head == "{'response':'X',"
C_tail == "'stats':{}}"
C_text == "hi"

OutChunks == {C_ws, C_null, C_empty, C_respNull, C_head, C_tail, C_text}
ErrChunks == {C_ws, "boom"}

\* String.prototype.trim of a chunk sequence: the white-space chunks at its ends
TrimChunks(s) ==
  IF \A i \in DOMAIN s : s[i] = C_ws THEN <<>>
  ELSE LET first == CHOOSE i \in DOMAIN s :
                      s[i] # C_ws /\ \A j \in 1..(i-1) : s[j] = C_ws
           last  == CHOOSE i \in DOMAIN s :
                      s[i] # C_ws /\ \A j \in (i+1)..Len(s) : s[j] = C_ws
       IN SubSeq(s, first, last)

NotSpace(c) == c # C_ws

\* JSON.parse: white space between tokens does not count; ok is FALSE for a
\* SyntaxError.  response and stats are "undefined" when the field is absent.
JSONparse(s) ==
  LET tokens == SelectSeq(s, NotSpace)
  IN CASE tokens = <<C_null>> ->
            [ok |-> TRUE, isNull |-> TRUE, response |-> "undefined", stats |-> "undefined"]
       [] tokens = <<C_empty>> ->
            [ok |-> TRUE, isNull |-> FALSE, response |-> "undefined", stats |-> "undefined"]
       [] tokens = <<C_respNull>> ->
            [ok |-> TRUE, isNull |-> FALSE, response |-> "null", stats |-> "undefined"]
       [] tokens = <<C_head, C_tail>> ->
            [ok |-> TRUE, isNull |-> FALSE, response |-> "X", stats |-> "{}"]
       [] OTHER ->
            [ok |-> FALSE, isNull |-> FALSE, response |-> "undefined", stats |-> "undefined"]

\* an exit code is <<>> (null: the child was ended by a signal) or <<n>>
CodeText(code) ==
  CASE code = <<>>    -> "null"
    [] code = <<0>>   -> "0"
    [] code = <<1>>   -> "1"
    [] code = <<-2>>  -> "-2"
    [] OTHER          -> "-13"

PROJECT_DIR == "/project"

\* payload.options?.cwd || PROJECT_DIR
WorkDir(p) == IF p.cwd = "" THEN PROJECT_DIR ELSE p.cwd

Payloads ==
  {[action |-> "noop", cwd |-> ""],
   [action |-> "launch_gemini", cwd |-> ""],
   [action |-> "launch_gemini", cwd |-> "/tmp"]}

\* the response of an action other than launch_gemini
EchoResponse(p) ==
  [json |-> TRUE, status |-> 200, success |-> TRUE,
   output |-> <<"Action received", p.action>>, stats |-> "undefined",
   action |-> p.action, cwd |-> "undefined"]

\* what the try block of the 'close' listener evaluates before it calls
\* res.json: it throws on a SyntaxError of JSON.parse and on the TypeError of
\* reading .response of null
TryThrows(out) ==
  LET parsed == JSONparse(TrimChunks(out))
  IN ~parsed.ok \/ parsed.isNull

\* the listener with the exit code looked at first: a non-zero or null code is
\* a failure before stdout is parsed
CloseResponseCodeFirst(p, code, out, err) ==
  LET t      == TrimChunks(out)
      parsed == JSONparse(t)
  IN IF code # <<0>> THEN
       [json |-> TRUE, status |-> 500, success |-> FALSE,
        output |-> IF TrimChunks(err) # <<>> THEN TrimChunks(err)
                   ELSE IF t # <<>> THEN t
                   ELSE <<"Gemini exited with code ", CodeText(code)>>,
        stats |-> "undefined", action |-> p.action, cwd |-> "undefined"]
     ELSE IF ~TryThrows(out) THEN
       [json |-> TRUE, status |-> 200, success |-> TRUE,
        output |-> IF parsed.response \in {"undefined", "null"}
                   THEN t ELSE <<parsed.response>>,
        stats |-> parsed.stats, action |-> p.action, cwd |-> WorkDir(p)]
     ELSE
       [json |-> TRUE, status |-> IF t # <<>> THEN 200 ELSE 500,
        success |-> t # <<>>,
        output |-> IF t # <<>> THEN t
                   ELSE IF TrimChunks(err) # <<>> THEN TrimChunks(err)
                   ELSE <<"Gemini exited with code ", CodeText(code)>>,
        stats |-> "undefined", action |-> p.action,
        cwd |-> IF t # <<>> THEN WorkDir(p) ELSE "undefined"]

\* the response the 'close' listener passes to res.json
CloseResponse(p, code, out, err) ==
  LET t      == TrimChunks(out)
      parsed == JSONparse(t)
  IN IF ~TryThrows(out) THEN
       [json |-> TRUE, status |-> 200, success |-> TRUE,
        \* parsed.response ?? stdout.trim()
        output |-> IF parsed.response \in {"undefined", "null"}
                   THEN t ELSE <<parsed.response>>,
        stats |-> parsed.stats, action |-> p.action, cwd |-> WorkDir(p)]
     ELSE IF code = <<0>> /\ t # <<>> THEN
       [json |-> TRUE, status |-> 200, success |-> TRUE, output |-> t,
        stats |-> "undefined", action |-> p.action, cwd |-> WorkDir(p)]
     ELSE
       [json |-> TRUE, status |-> 500, success |-> FALSE,
        output |-> IF TrimChunks(err) # <<>> THEN TrimChunks(err)
                   ELSE IF t # <<>> THEN t
                   ELSE <<"Gemini exited with code ", CodeText(code)>>,
        stats |-> "undefined", action |-> p.action, cwd |-> "undefined"]

\* the response of the 'error' listener; errno is the code of the launch error
ErrorResponse(p, errno) ==
  [json |-> TRUE, status |-> 500, success |-> FALSE,
   output |-> IF errno = <<-2>>
              THEN <<"Gemini CLI not found. Install: npm install -g @google/gemini-cli">>
              ELSE <<"spawn gemini EACCES">>,
   stats |-> "undefined", action |-> p.action, cwd |-> "undefined"]

\* the 'data' listeners of another request's closure fed as well
AppendChunkShared(buf, r, chunk) == [q \in Reqs |-> Append(buf[q], chunk)]

\* stdout += d.toString() (and stderr): the buffer of the request's own closure
AppendChunk(buf, r, chunk) == [buf EXCEPT ![r] = Append(@, chunk)]

\* res.json / res.status(..).json for request r
Send(r, response) ==
  /\ resp' = [resp EXCEPT ![r] = Append(@, response)]
  /\ sends' = [sends EXCEPT ![r] = @ + 1]

\* app.post('/do-something') with an action other than launch_gemini
PostOther(r, p) ==
  /\ ~crashed
  /\ NoTickPending
  /\ payload[r] = <<>>
  /\ p.action # "launch_gemini"
  /\ payload' = [payload EXCEPT ![r] = <<p>>]
  /\ Send(r, EchoResponse(p))
  /\ UNCHANGED <<envVars, crashed, urlVars, child, exitCode, stdout, stderr,
                 wroteOut, wroteErr, timer, nData>>

\* app.post('/do-something') with launch_gemini: the child is spawned and the
\* listeners are attached.  launch is what spawn meets: "ok", or the launch
\* error "ENOENT" or "EACCES".
PostLaunch(r, p, launch) ==
  /\ ~crashed
  /\ NoTickPending
  /\ payload[r] = <<>>
  /\ p.action = "launch_gemini"
  /\ payload' = [payload EXCEPT ![r] = <<p>>]
  /\ child' = [child EXCEPT ![r] = IF launch = "ok" THEN "running"
                                   ELSE "launch_failed"]
  /\ exitCode' = [exitCode EXCEPT ![r] = IF launch = "ENOENT" THEN <<-2>>
                                         ELSE IF launch = "EACCES" THEN <<-13>>
                                         ELSE @]
  /\ timer' = [timer EXCEPT ![r] = IF launch = "ok" THEN "armed" ELSE @]
  /\ UNCHANGED <<envVars, crashed, urlVars, stdout, stderr, wroteOut, wroteErr,
                 resp, sends, nData>>

\* gemini.stdout.on('data'): the child writes a chunk and the listener adds it
StdoutData(r, chunk) ==
  /\ ~crashed
  /\ NoTickPending
  /\ child[r] = "running"
  /\ nData < MaxData
  /\ nData' = nData + 1
  /\ wroteOut' = [wroteOut EXCEPT ![r] = Append(@, chunk)]
  /\ stdout' = AppendChunk(stdout, r, chunk)
  /\ UNCHANGED <<envVars, crashed, urlVars, payload, child, exitCode, stderr,
                 wroteErr, timer, resp, sends>>

\* gemini.stderr.on('data')
StderrData(r, chunk) ==
  /\ ~crashed
  /\ NoTickPending
  /\ child[r] = "running"
  /\ nData < MaxData
  /\ nData' = nData + 1
  /\ wroteErr' = [wroteErr EXCEPT ![r] = Append(@, chunk)]
  /\ stderr' = AppendChunk(stderr, r, chunk)
  /\ UNCHANGED <<envVars, crashed, urlVars, payload, child, exitCode, stdout,
                 wroteOut, timer, resp, sends>>

\* the child exits by itself with a code; spawn clears its timeout on 'exit'
ChildExit(r, code) ==
  /\ ~crashed
  /\ NoTickPending
  /\ child[r] = "running"
  /\ child' = [child EXCEPT ![r] = "exited"]
  /\ exitCode' = [exitCode EXCEPT ![r] = <<code>>]
  /\ timer' = [timer EXCEPT ![r] = "off"]
  /\ UNCHANGED <<envVars, crashed, urlVars, payload, stdout, stderr, wroteOut,
                 wroteErr, resp, sends, nData>>

\* the timeout of spawn (timeout: 120_000) fires while the child runs:
\* child.kill(), which sends SIGTERM; ignores is whether the child ignores it
TimeoutFires(r, ignores) ==
  /\ ~crashed
  /\ NoTickPending
  /\ child[r] = "running"
  /\ timer[r] = "armed"
  /\ timer' = [timer EXCEPT ![r] = IF ignores THEN "ignored" ELSE "fired"]
  /\ UNCHANGED <<envVars, crashed, urlVars, payload, child, exitCode, stdout,
                 stderr, wroteOut, wroteErr, resp, sends, nData>>

\* SIGTERM ends a child that does not ignore it: exit code null
ChildKilled(r) ==
  /\ ~crashed
  /\ NoTickPending
  /\ child[r] = "running"
  /\ timer[r] = "fired"
  /\ child' = [child EXCEPT ![r] = "exited"]
  /\ exitCode' = [exitCode EXCEPT ![r] = <<>>]
  /\ timer' = [timer EXCEPT ![r] = "off"]
  /\ UNCHANGED <<envVars, crashed, urlVars, payload, stdout, stderr, wroteOut,
                 wroteErr, resp, sends, nData>>

\* gemini.on('error'): the launch error, delivered on the next tick
OnError(r) ==
  /\ ~crashed
  /\ child[r] = "launch_failed"
  /\ child' = [child EXCEPT ![r] = "error_emitted"]
  /\ Send(r, ErrorResponse(payload[r][1], exitCode[r]))
  /\ UNCHANGED <<envVars, crashed, urlVars, payload, exitCode, stdout, stderr,
                 wroteOut, wroteErr, timer, nData>>

\* gemini.on('close'): after the child exited, and after a launch error too
\* (the code is then the negative errno).  res.json on a response that was sent
\* throws; thrown in the try block it is caught and the catch block calls
\* res.json again, which throws out of the listener: an uncaught exception.
OnClose(r) ==
  /\ ~crashed
  /\ NoTickPending
  /\ child[r] \in {"exited", "error_emitted"}
  /\ child' = [child EXCEPT ![r] = "closed"]
  /\ IF resp[r] = <<>>
     THEN /\ Send(r, CloseResponse(payload[r][1], exitCode[r], stdout[r], stderr[r]))
          /\ crashed' = crashed
     ELSE /\ sends' = [sends EXCEPT ![r] = @ + (IF TryThrows(stdout[r]) THEN 1 ELSE 2)]
          /\ resp' = resp
          /\ crashed' = TRUE
  /\ UNCHANGED <<envVars, urlVars, payload, exitCode, stdout, stderr, wroteOut,
                 wroteErr, timer, nData>>

(***************************************************************************)
(* Specifications.                                                         *)
(***************************************************************************)
InitRequests ==
  /\ crashed = FALSE
  /\ brResp = <<>>
  /\ brSpawned = <<>>
  /\ brChild = "none"
  /\ payload = [r \in Reqs |-> <<>>]
  /\ child = [r \in Reqs |-> "none"]
  /\ exitCode = [r \in Reqs |-> <<>>]
  /\ stdout = [r \in Reqs |-> <<>>]
  /\ stderr = [r \in Reqs |-> <<>>]
  /\ wroteOut = [r \in Reqs |-> <<>>]
  /\ wroteErr = [r \in Reqs |-> <<>>]
  /\ timer = [r \in Reqs |-> "off"]
  /\ resp = [r \in Reqs |-> <<>>]
  /\ sends = [r \in Reqs |-> 0]
  /\ nData = 0

\* the /do-something endpoint, on a Linux host
Init ==
  /\ CURRENT_OS = "linux"
  /\ host = {"xdg-open", "firefox"}
  /\ INSTALLED_BROWSERS = detectBrowsers(CURRENT_OS)
  /\ brPrompt = <<>>
  /\ InitRequests

Next ==
  \/ \E r \in Reqs, p \in Payloads : PostOther(r, p)
  \/ \E r \in Reqs, p \in Payloads, launch \in {"ok", "ENOENT", "EACCES"} :
        PostLaunch(r, p, launch)
  \/ \E r \in Reqs, chunk \in OutChunks : StdoutData(r, chunk)
  \/ \E r \in Reqs, chunk \in ErrChunks : StderrData(r, chunk)
  \/ \E r \in Reqs, code \in {0, 1} : ChildExit(r, code)
  \/ \E r \in Reqs, ignores \in BOOLEAN : TimeoutFires(r, ignores)
  \/ \E r \in Reqs : ChildKilled(r)
  \/ \E r \in Reqs : OnError(r)
  \/ \E r \in Reqs : OnClose(r)

Spec == Init /\ [][Next]_vars

NextBrowser ==
  \/ OpenBrowser
  \/ BrowserChildError
  \/ BrowserChildExit

\* the resolver and /open-browser alone, over every prompt, OS and host
InitUrl ==
  /\ CURRENT_OS \in OSes
  /\ host \in Hosts(CURRENT_OS)
  /\ INSTALLED_BROWSERS = detectBrowsers(CURRENT_OS)
  /\ brPrompt \in Prompts
  /\ InitRequests

SpecUrl == InitUrl /\ [][NextBrowser]_vars

\* the agent endpoint under the scheduling the event loop guarantees: a timer
\* that is armed fires, a signal that is not ignored ends the child, and an
\* event that was emitted is delivered to its listener.  That a child exits
\* by itself, or that it writes anything, is not guaranteed.
Fairness ==
  \A r \in Reqs :
    /\ WF_vars(\E ignores \in BOOLEAN : TimeoutFires(r, ignores))
    /\ WF_vars(ChildKilled(r))
    /\ WF_vars(OnError(r))
    /\ WF_vars(OnClose(r))

SpecFair == Init /\ [][Next]_vars /\ Fairness

(***************************************************************************)
(* Properties of the resolver and of /open-browser (under SpecUrl).        *)
(***************************************************************************)
\* /open-browser answered its request with a success
Opened == brResp # <<>> /\ brResp[1].status = 200

PromptText == brPrompt[1]
PromptLower == Trim(ToLowerCase(PromptText))

HasScheme(lower) == StartsWith(lower, S_http) \/ StartsWith(lower, S_https)

\* the shortcut keys the lowercased text includes
MatchingKeys(lower) ==
  {k \in Range(Keys(SITE_SHORTCUTS)) : Includes(lower, k)}

\* the longest of them
LongestKeys(ks) == {k \in ks : \A j \in ks : Len(j) <= Len(k)}

\* of the keys ks, the one that comes first in the table
FirstInTable(table, ks) ==
  LET idx == {i \in DOMAIN table : table[i][1] \in ks}
  IN table[CHOOSE i \in idx : \A j \in idx : i <= j][1]

RECURSIVE Reverse(_)
Reverse(s) == IF s = <<>> THEN <<>> ELSE Append(Reverse(Tail(s)), Head(s))

RotateLeft(s, k) == SubSeq(s, k + 1, Len(s)) \o SubSeq(s, 1, k)

\* the orderings of the shortcut table the properties range over
TableOrders ==
  { SITE_SHORTCUTS, Reverse(SITE_SHORTCUTS),
    RotateLeft(SITE_SHORTCUTS, 3), RotateLeft(SITE_SHORTCUTS, 7) }

\* C7 as stated: for a text without a scheme prefix that includes two or more
\* shortcut keys, resolveUrl returns the URL of the longest matching key, and
\* returns the same URL under every ordering of the table.
C7_LongestKeyAnyOrder ==
  (Opened /\ ~HasScheme(PromptLower)
     /\ Cardinality(MatchingKeys(PromptLower)) >= 2) =>
    /\ \E k \in LongestKeys(MatchingKeys(PromptLower)) :
         brResp[1].url = Lookup(SITE_SHORTCUTS, k)
    /\ \A ord \in TableOrders : ResolveUrlWith(ord, PromptText) = brResp[1].url

\* C7 as amended: resolveUrl returns the URL of a longest matching key; among
\* several matching keys of that greatest length the one that comes first in
\* the table wins, so the result is the same under every ordering of the table
\* exactly when the longest matching key is unique.
C7_LongestKeyFirstInTable ==
  (Opened /\ ~HasScheme(PromptLower)
     /\ Cardinality(MatchingKeys(PromptLower)) >= 2) =>
    LET longest == LongestKeys(MatchingKeys(PromptLower))
    IN /\ brResp[1].url = Lookup(SITE_SHORTCUTS, FirstInTable(SITE_SHORTCUTS, longest))
       /\ \A ord \in TableOrders :
            ResolveUrlWith(ord, PromptText) = Lookup(ord, FirstInTable(ord, longest))
       /\ Cardinality(longest) = 1 =>
            \A ord \in TableOrders : ResolveUrlWith(ord, PromptText) = brResp[1].url

\* a text that includes "github" and "google", two keys of the greatest length,
\* was resolved to the URL of "github", the first of the two in the table
C7_Witness ==
  /\ Opened
  /\ ~HasScheme(PromptLower)
  /\ Cardinality(LongestKeys(MatchingKeys(PromptLower))) = 2
  /\ brResp[1].url = Lookup(SITE_SHORTCUTS, <<"g","i","t","h","u","b">>)

\* a shortcut site is named: a key stands in the text as whole words
NamesSite(lower) ==
  \E k \in Range(Keys(SITE_SHORTCUTS)) :
    \E i \in 1..(Len(lower) - Len(k) + 1) :
      /\ SubSeq(lower, i, i + Len(k) - 1) = k
      /\ i = 1 \/ lower[i - 1] = " "
      /\ i + Len(k) - 1 = Len(lower) \/ lower[i + Len(k)] = " "

\* C8 as stated: a text that has no scheme prefix, is not a bare domain and
\* names none of the shortcut sites resolves to the search URL of the
\* URL-escaped original text, never to the URL of a shortcut.
C8_SearchFallback ==
  (Opened /\ ~HasScheme(PromptLower) /\ ~IsDomainLike(PromptLower)
     /\ ~NamesSite(PromptLower)) =>
    brResp[1].url = Lookup(SITE_SHORTCUTS, K_google) \o S_search
                      \o EncodeURIComponent(PromptText)

\* the binaries that are the named browser itself
OwnBinaries(name) ==
  CASE name = "brave"    -> {"brave", "brave-browser"}
    [] name = "chrome"   -> {"google-chrome", "google-chrome-stable"}
    [] name = "chromium" -> {"chromium", "chromium-browser"}
    [] name = "firefox"  -> {"firefox"}
    [] name = "edge"     -> {"microsoft-edge", "microsoft-edge-stable"}
    [] OTHER             -> {name}

\* the binaries the resolver takes for the named browser: for chrome, the
\* Chromium binaries too
AcceptedBinaries(name) ==
  OwnBinaries(name) \cup (IF name = "chrome" THEN OwnBinaries("chromium") ELSE {})

\* on Linux, /open-browser answered a prompt that names a browser
NamedOnLinux ==
  /\ CURRENT_OS = "linux"
  /\ brResp # <<>>
  /\ brPrompt # <<>>
  /\ extractBrowserName(PromptText) # "null"

\* the request failed with 400 and the "not found" message that lists the
\* installed browsers, and nothing was spawned
NotFoundAnswer(name) ==
  /\ brResp[1].status = 400
  /\ ~brResp[1].success
  /\ brResp[1].output = <<"not found", name, INSTALLED_BROWSERS>>
  /\ brSpawned = <<>>
  /\ brChild = "none"

ClosedWith(r, code) == child[r] = "closed" /\ exitCode[r] = code

\* the errno codes of a failed launch
LaunchErrnos == {<<-2>>, <<-13>>}

\* the best diagnostic text: the trimmed stderr, else the trimmed stdout, else
\* the message with the exit code
Diagnostic(code, out, err) ==
  IF TrimChunks(err) # <<>> THEN TrimChunks(err)
  ELSE IF TrimChunks(out) # <<>> THEN TrimChunks(out)
  ELSE <<"Gemini exited with code ", CodeText(code)>>

\* the cascade as C1 states it: stdout parsed as it is, the raw stdout when
\* the response field is absent, and "stdout is non-empty" in step 2
StatedCascade(p, code, out, err) ==
  LET parsed == JSONparse(out)
  IN IF parsed.ok THEN
       [json |-> TRUE, status |-> 200, success |-> TRUE,
        output |-> IF parsed.response = "undefined" THEN out
                   ELSE <<parsed.response>>,
        stats |-> parsed.stats, action |-> p.action, cwd |-> WorkDir(p)]
     ELSE IF code = <<0>> /\ out # <<>> THEN
       [json |-> TRUE, status |-> 200, success |-> TRUE, output |-> TrimChunks(out),
        stats |-> "undefined", action |-> p.action, cwd |-> WorkDir(p)]
     ELSE
       [json |-> TRUE, status |-> 500, success |-> FALSE,
        output |-> Diagnostic(code, out, err),
        stats |-> "undefined", action |-> p.action, cwd |-> "undefined"]

\* C1 as stated: when the child of a launch_gemini request closes, the
\* response is the one the stated cascade decides from the exit code, stdout
\* and stderr, and nothing else decides it.
C1_CascadeAsStated ==
  \A r \in Reqs :
    child[r] = "closed" =>
      resp[r] = <<StatedCascade(payload[r][1], exitCode[r], wroteOut[r], wroteErr[r])>>

\* the cascade as amended: a JSON value other than null, the trimmed stdout
\* when the response field is absent or null, and a trimmed stdout that is
\* non-empty in step 2
AmendedCascade(p, code, out, err) ==
  LET t      == TrimChunks(out)
      parsed == JSONparse(t)
  IN IF parsed.ok /\ ~parsed.isNull THEN
       [json |-> TRUE, status |-> 200, success |-> TRUE,
        output |-> IF parsed.response \in {"undefined", "null"} THEN t
                   ELSE <<parsed.response>>,
        stats |-> parsed.stats, action |-> p.action, cwd |-> WorkDir(p)]
     ELSE IF code = <<0>> /\ t # <<>> THEN
       [json |-> TRUE, status |-> 200, success |-> TRUE, output |-> t,
        stats |-> "undefined", action |-> p.action, cwd |-> WorkDir(p)]
     ELSE
       [json |-> TRUE, status |-> 500, success |-> FALSE,
        output |-> Diagnostic(code, out, err),
        stats |-> "undefined", action |-> p.action, cwd |-> "undefined"]

\* C1 as amended: when the child closes, the response is the one the 'error'
\* listener sent if the launch failed, and otherwise the one the amended
\* cascade decides from the exit code, stdout and stderr.
C1_Cascade ==
  \A r \in Reqs :
    child[r] = "closed" =>
      resp[r] = << IF exitCode[r] \in LaunchErrnos
                   THEN ErrorResponse(payload[r][1], exitCode[r])
                   ELSE AmendedCascade(payload[r][1], exitCode[r],
                                       wroteOut[r], wroteErr[r]) >>

\* a child wrote the JSON document null and exited with code 1: the request
\* was answered as a failure with that text
C1_Witness ==
  \E r \in Reqs :
    /\ ClosedWith(r, <<1>>)
    /\ wroteOut[r] = <<C_null>>
    /\ wroteErr[r] = <<>>
    /\ resp[r] # <<>>
    /\ resp[r][1].status = 500
    /\ resp[r][1].output = <<C_null>>

\* C2 as stated: a child that exits with a non-zero code is reported as a
\* failure, status 500 and success=false with the best diagnostic text,
\* whatever it wrote to stdout.
C2_NonZeroExitIsFailure ==
  \A r \in Reqs :
    ClosedWith(r, <<1>>) =>
      /\ resp[r] # <<>>
      /\ ~resp[r][1].success
      /\ resp[r][1].status = 500
      /\ resp[r][1].output = Diagnostic(<<1>>, wroteOut[r], wroteErr[r])

\* C3 as stated: a child that was still running when the timeout fired and was
\* ended by its signal (exit code null) is answered as a failure, whatever it
\* had written.
C3_TimeoutIsFailure ==
  \A r \in Reqs :
    ClosedWith(r, <<>>) =>
      /\ resp[r] # <<>>
      /\ ~resp[r][1].success
      /\ resp[r][1].status = 500

\* C4 as stated: no sequence of child-process events crashes the server, and
\* every response is a JSON body.
C4_NeverCrashes ==
  /\ ~crashed
  /\ \A r \in Reqs : \A i \in DOMAIN resp[r] : resp[r][i].json

\* C5 as stated: a launch_gemini request whose child runs is eventually
\* answered (here: or the process has crashed, which is C4's matter).
C5_EventuallyAnswered ==
  \A r \in Reqs : (child[r] = "running") ~> (resp[r] # <<>> \/ crashed)

\* C9 as stated: over every sequence of events of its child, the handlers of
\* a request send a response at most once.
C9_AnsweredAtMostOnce == \A r \in Reqs : sends[r] <= 1

\* the response of r as its own payload and its own child's exit code and
\* output decide it
OwnResponse(r) ==
  LET p == payload[r][1]
  IN IF p.action # "launch_gemini" THEN EchoResponse(p)
     ELSE IF exitCode[r] \in LaunchErrnos THEN ErrorResponse(p, exitCode[r])
     ELSE CloseResponse(p, exitCode[r], wroteOut[r], wroteErr[r])

\* C10: in every interleaving of the requests, the response a request got is
\* the one its own payload and its own child's exit code, stdout and stderr
\* decide, and no step changes the environment snapshot.
C10_Isolation ==
  /\ [](\A r \in Reqs : resp[r] # <<>> => resp[r] = <<OwnResponse(r)>>)
  /\ [][envVars' = envVars]_vars

\* r1 was answered from its own output while r2, whose child has written
\* something else, is still waiting for its child
C10_Witness ==
  /\ child["r1"] = "closed"
  /\ resp["r1"] # <<>>
  /\ child["r2"] = "running"
  /\ wroteOut["r1"] # <<>>
  /\ wroteOut["r2"] # <<>>
  /\ wroteOut["r1"] # wroteOut["r2"]
  /\ payload["r1"] # payload["r2"]

=============================================================================
